---- MODULE Spec2Model ----
(***************************************************************************)
(* Keyset pagination cursors of sentry.utils.cursors: the Cursor token     *)
(* (construction, text form, parsing) and build_cursor, the computation of *)
(* the trimmed page and of the next / previous cursors from a batch of     *)
(* ordered rows.                                                           *)
(*                                                                         *)
(* Rows are records [id, k]: id is the identity of the row, k its integer  *)
(* sort key.  Optional values (None in the source) are sets: None is {}    *)
(* and a present value x is {x}.                                           *)
(***************************************************************************)
EXTENDS Integers, Sequences, FiniteSets, TLC

VARIABLES
    pc,           \* position of the running scenario
    store,        \* the ordered rows of the store (paging session)
    is_desc,      \* ordering flag handed to build_cursor
    limit,        \* page size handed to build_cursor
    cursor,       \* inbound cursor of the last build_cursor call (None or Some)
    results,      \* batch handed to the last build_cursor call
    rows,         \* CursorResult.results of the last call
    next_cursor,  \* CursorResult.next of the last call
    prev_cursor,  \* CursorResult.prev of the last call
    seen,         \* concatenation of the pages of the forward session
    session,      \* "running" | "ended" | "left" (forward session state)
    origPage,     \* page that was current before the last forward step
    origNext,     \* next cursor of that page
    lastOp,       \* last paging step: "none" | "next" | "prev"
    prevOp,       \* paging step before the last one
    steps,        \* number of paging steps taken
    text,         \* cursor token text (sequence of characters)
    cur,          \* cursor constructed by Cursor(...) (None or Some)
    parsed        \* outcome of Cursor.from_string(text)

vars == <<pc, store, is_desc, limit, cursor, results, rows, next_cursor,
          prev_cursor, seen, session, origPage, origNext, lastOp, prevOp, steps,
          text, cur, parsed>>

pagingVars == <<store, is_desc, limit, cursor, results, rows, next_cursor,
                prev_cursor, seen, session, origPage, origNext, lastOp, prevOp, steps>>

textVars == <<text, cur, parsed>>

----------------------------------------------------------------------------
(* Bounds *)

MaxRows == 5      \* rows in the store
MaxKey == 2       \* largest sort key; keys range over -1..MaxKey
MaxLimit == 3     \* largest page size
MaxSteps == 4     \* paging steps per session
MaxBatch == 4     \* largest batch handed to build_cursor directly
MaxOffset == 2    \* largest inbound offset handed to build_cursor directly

Keys == (0 - 1)..MaxKey

None == {}

Some(x) == {x}

Get(o) == CHOOSE x \in o : TRUE

Min(a, b) == IF a < b THEN a ELSE b

Max(a, b) == IF a > b THEN a ELSE b

----------------------------------------------------------------------------
(* Cursor, for the integer values the pagination works with *)

\* Cursor.__init__ on integer arguments: int() of an integer is the integer
Cursor(value, offset, is_prev, has_results) ==
    [value |-> value, offset |-> offset, is_prev |-> is_prev,
     has_results |-> has_results]

\* the key callback of the caller, on rows with an integer key
key(row, for_prev) == row.k

\* Python truthiness of an integer
Truthy(n) == n # 0

\* x or 0
OrZero(n) == IF Truthy(n) THEN n ELSE 0

----------------------------------------------------------------------------
(* build_cursor *)

\* HasPrev that looks at the inbound value only
HasPrev_ValueOnly(num_results, lim, value, offset, is_prev) ==
    IF is_prev THEN num_results > lim
    ELSE IF Truthy(value) THEN TRUE
    ELSE FALSE

HasPrev(num_results, lim, value, offset, is_prev) ==
    IF is_prev THEN num_results > lim
    ELSE IF Truthy(value) \/ Truthy(offset) THEN TRUE
    ELSE FALSE

\* HasNext with >= for >
HasNext_AtLeast(num_results, lim, is_prev) ==
    IF is_prev THEN TRUE
    ELSE IF num_results > 0 THEN num_results >= lim
    ELSE FALSE

HasNext(num_results, lim, is_prev) ==
    IF is_prev THEN TRUE
    ELSE IF num_results > 0 THEN num_results > lim
    ELSE FALSE

RECURSIVE ScanTail(_, _, _, _)
\* the loop over reversed(results) from position i down: counts the rows
\* that are not yet passed by next_value, stops at the first other row
ScanTail(res, i, next_value, desc) ==
    IF i < 1 THEN 0
    ELSE LET result_value == key(res[i], FALSE)
             is_larger == result_value >= next_value
             is_smaller == result_value <= next_value
         IN IF (desc /\ is_smaller) \/ (~desc /\ is_larger)
            THEN 1 + ScanTail(res, i - 1, next_value, desc)
            ELSE 0

\* NextOffset with the lookahead row counted by the scan
NextOffset_KeepsSentinel(res, lim, desc, value, offset, has_next) ==
    LET next_value == key(res[Len(res)], FALSE)
    IN IF next_value = value
       THEN offset + lim
       ELSE ScanTail(res, Len(res), next_value, desc)

\* NextOffset that forgets the inbound offset when the value did not change
NextOffset_DropsOffset(res, lim, desc, value, offset, has_next) ==
    LET next_value == key(res[Len(res)], FALSE)
    IN IF next_value = value
       THEN lim
       ELSE ScanTail(res, IF has_next THEN Len(res) - 1 ELSE Len(res),
                     next_value, desc)

NextOffset(res, lim, desc, value, offset, has_next) ==
    LET next_value == key(res[Len(res)], FALSE)
    IN IF next_value = value
       THEN offset + lim
       ELSE ScanTail(res, IF has_next THEN Len(res) - 1 ELSE Len(res),
                     next_value, desc)

RECURSIVE ScanHead(_, _, _, _)
\* the loop over iter(results) from position i up: counts the rows that
\* are not yet passed by prev_value in the backward direction
ScanHead(res, i, prev_value, desc) ==
    IF i > Len(res) THEN 0
    ELSE LET result_value == key(res[i], TRUE)
             is_larger == result_value >= prev_value
             is_smaller == result_value <= prev_value
         IN IF (desc /\ is_larger) \/ (~desc /\ is_smaller)
            THEN 1 + ScanHead(res, i + 1, prev_value, desc)
            ELSE 0

\* PrevOffset that takes the inbound offset over while moving forward
PrevOffset_AlwaysOffset(res, lim, desc, value, offset, is_prev, has_prev, prev_value) ==
    IF is_prev /\ Len(res) > 0
    THEN IF prev_value = value
         THEN offset + lim
         ELSE ScanHead(res, IF has_prev THEN 3 ELSE 2, prev_value, desc)
    ELSE offset

PrevOffset(res, lim, desc, value, offset, is_prev, has_prev, prev_value) ==
    IF is_prev /\ Len(res) > 0
    THEN IF prev_value = value
         THEN offset + lim
         ELSE ScanHead(res, IF has_prev THEN 3 ELSE 2, prev_value, desc)
    ELSE IF is_prev THEN offset ELSE 0

\* Truncate that drops the head row of every backward batch
Truncate_DropsHead(res, lim, is_prev, has_prev) ==
    IF is_prev THEN SubSeq(res, 2, Len(res))
    ELSE SubSeq(res, 1, Min(lim, Len(res)))

Truncate(res, lim, is_prev, has_prev) ==
    IF is_prev /\ has_prev THEN SubSeq(res, 2, Len(res))
    ELSE IF ~is_prev THEN SubSeq(res, 1, Min(lim, Len(res)))
    ELSE res

build_cursor(res, lim, desc, cursorArg) ==
    LET c == IF cursorArg = None THEN Cursor(0, 0, FALSE, None)
             ELSE Get(cursorArg)
        offset == c.offset
        is_prev == c.is_prev
        num_results == Len(res)
        has_prev == HasPrev(num_results, lim, c.value, offset, is_prev)
        has_next == HasNext(num_results, lim, is_prev)
        \* the value the forward branch compares with: the first row's key
        \* when the cursor has none
        value == IF ~is_prev /\ num_results > 0 /\ ~Truthy(c.value)
                 THEN key(res[1], FALSE) ELSE c.value
        next_value == IF is_prev THEN value
                      ELSE IF num_results > 0 THEN key(res[num_results], FALSE)
                      ELSE value
        next_offset == IF is_prev THEN 0
                       ELSE IF num_results > 0
                            THEN NextOffset(res, lim, desc, value, offset, has_next)
                       ELSE offset
        first_prev_index == IF is_prev /\ has_prev THEN 1 ELSE 0
        prev_value == IF num_results > 0
                      THEN key(res[first_prev_index + 1], TRUE) ELSE 0
        prev_offset == PrevOffset(res, lim, desc, value, offset, is_prev,
                                  has_prev, prev_value)
    IN [results |-> Truncate(res, lim, is_prev, has_prev),
        next |-> Cursor(OrZero(next_value), next_offset, FALSE, Some(has_next)),
        prev |-> Cursor(OrZero(prev_value), prev_offset, TRUE, Some(has_prev))]

----------------------------------------------------------------------------
(* The ordered store and the query of the list endpoint *)

\* rows of a store whose keys are ks, in store order
RowsOf(ks) == [i \in 1..Len(ks) |-> [id |-> i, k |-> ks[i]]]

Monotone(ks, desc) ==
    \A i \in 1..(Len(ks) - 1) :
        IF desc THEN ks[i] >= ks[i + 1] ELSE ks[i] <= ks[i + 1]

KeySeqs(n) == UNION {[1..m -> Keys] : m \in 0..n}

\* number of rows of the store that lie before the seek position of a
\* forward cursor: the rows already passed by value
Passed(st, desc, value) ==
    Cardinality({i \in 1..Len(st) :
                    IF desc THEN st[i].k > value ELSE st[i].k < value})

\* number of rows of the store that are at or before value in store order:
\* the rows a backward cursor at value can still reach
Reachable(st, desc, value) ==
    Cardinality({i \in 1..Len(st) :
                    IF desc THEN st[i].k >= value ELSE st[i].k <= value})

\* forward query: seek by value, skip offset rows, read up to limit + 1 rows
FetchForward(st, desc, lim, cursorArg) ==
    LET first == IF cursorArg = None THEN 1
                 ELSE Passed(st, desc, Get(cursorArg).value)
                      + Get(cursorArg).offset + 1
        last == Min(Len(st), first + lim)
    IN SubSeq(st, Max(first, 1), last)

\* backward query: seek by value against the store order, skip the row the
\* cursor was taken from and offset further rows, read up to limit + 1 rows,
\* hand them over in store order
FetchBackward(st, desc, lim, c) ==
    LET last == Reachable(st, desc, c.value) - (c.offset + 1)
        first == Max(1, last - lim)
    IN SubSeq(st, first, Min(last, Len(st)))

Fetch(st, desc, lim, cursorArg) ==
    IF cursorArg # None /\ Get(cursorArg).is_prev
    THEN FetchBackward(st, desc, lim, Get(cursorArg))
    ELSE FetchForward(st, desc, lim, cursorArg)

----------------------------------------------------------------------------
(* Paging session: a client pages through the store *)

NoCursor == Cursor(0, 0, FALSE, None)

NoToken == text = <<>> /\ cur = None /\ parsed = [status |-> "none", cursor |-> None]

Init ==
    /\ pc = "page"
    /\ \E ks \in KeySeqs(MaxRows), d \in BOOLEAN :
          /\ Monotone(ks, d)
          /\ store = RowsOf(ks)
          /\ is_desc = d
    /\ limit \in 1..MaxLimit
    /\ cursor = None
    /\ results = <<>>
    /\ rows = <<>>
    /\ next_cursor = NoCursor
    /\ prev_cursor = NoCursor
    /\ seen = <<>>
    /\ session = "running"
    /\ origPage = <<>>
    /\ origNext = NoCursor
    /\ lastOp = "none"
    /\ prevOp = "none"
    /\ steps = 0
    /\ NoToken

\* one request of the list endpoint: query the store at the cursor, then
\* build_cursor
Request(cursorArg) ==
    LET batch == Fetch(store, is_desc, limit, cursorArg)
        out == build_cursor(batch, limit, is_desc, cursorArg)
    IN /\ cursor' = cursorArg
       /\ results' = batch
       /\ rows' = out.results
       /\ next_cursor' = out.next
       /\ prev_cursor' = out.prev

\* the client asks for the first page (no cursor) or follows the next cursor
NextPage ==
    /\ pc = "page"
    /\ steps < MaxSteps
    /\ Request(IF lastOp = "none" THEN None ELSE Some(next_cursor))
    /\ seen' = IF session = "running" THEN seen \o rows' ELSE seen
    /\ session' = IF session = "running" /\ ~Get(next_cursor'.has_results)
                  THEN "ended" ELSE session
    /\ origPage' = rows
    /\ origNext' = next_cursor
    /\ prevOp' = lastOp
    /\ lastOp' = "next"
    /\ steps' = steps + 1
    /\ UNCHANGED <<pc, store, is_desc, limit, textVars>>

\* the client follows the prev cursor
PrevPage ==
    /\ pc = "page"
    /\ steps < MaxSteps
    /\ lastOp # "none"
    /\ Request(Some(prev_cursor))
    /\ session' = IF session = "running" THEN "left" ELSE session
    /\ prevOp' = lastOp
    /\ lastOp' = "prev"
    /\ steps' = steps + 1
    /\ UNCHANGED <<pc, store, is_desc, limit, seen, origPage, origNext, textVars>>

Next == NextPage \/ PrevPage

Spec == Init /\ [][Next]_vars

----------------------------------------------------------------------------
(* build_cursor called directly on a batch and a cursor *)

CursorArgs ==
    {None} \cup {Some(Cursor(v, o, p, None)) :
                    v \in Keys, o \in (0 - 1)..MaxOffset, p \in BOOLEAN}

InitBatch ==
    /\ pc = "batch"
    /\ store = <<>>
    /\ \E ks \in KeySeqs(MaxBatch), d \in BOOLEAN :
          /\ Monotone(ks, d)
          /\ results = RowsOf(ks)
          /\ is_desc = d
    /\ limit \in 1..MaxLimit
    /\ cursor \in CursorArgs
    /\ rows = <<>>
    /\ next_cursor = NoCursor
    /\ prev_cursor = NoCursor
    /\ seen = <<>>
    /\ session = "left"
    /\ origPage = <<>>
    /\ origNext = NoCursor
    /\ lastOp = "none"
    /\ prevOp = "none"
    /\ steps = 0
    /\ NoToken

BuildCursor ==
    /\ pc = "batch"
    /\ LET out == build_cursor(results, limit, is_desc, cursor)
       IN /\ rows' = out.results
          /\ next_cursor' = out.next
          /\ prev_cursor' = out.prev
    /\ pc' = "built"
    /\ UNCHANGED <<store, is_desc, limit, cursor, results, seen, session,
                   origPage, origNext, lastOp, prevOp, steps, textVars>>

NextBatch == BuildCursor

SpecBatch == InitBatch /\ [][NextBatch]_vars

----------------------------------------------------------------------------
(* Python numbers and their text forms                                      *)
(*                                                                          *)
(* Python integers are unbounded; a number is a record [kind, neg, hi, lo,  *)
(* frac] of magnitude hi * Limb + lo (two decimal limbs), frac telling that *)
(* a non-zero fractional part follows.  kind is "num", "inf" or "nan".      *)
(* Text is a sequence of one-character strings.                             *)

Limb == 10000 * 10000

MaxDigits == 17   \* longest digit string the two limbs hold

Digits == <<"0", "1", "2", "3", "4", "5", "6", "7", "8", "9">>

IsDigit(ch) == \E i \in 1..10 : Digits[i] = ch

DigitVal(ch) == (CHOOSE i \in 1..10 : Digits[i] = ch) - 1

AllDigits(t) == \A i \in 1..Len(t) : IsDigit(t[i])

RECURSIVE NatOfDigits(_)
NatOfDigits(ds) ==
    IF ds = <<>> THEN 0
    ELSE 10 * NatOfDigits(SubSeq(ds, 1, Len(ds) - 1)) + DigitVal(ds[Len(ds)])

RECURSIVE DigitsOfNat(_)
DigitsOfNat(n) ==
    IF n < 10 THEN <<Digits[n + 1]>>
    ELSE DigitsOfNat(n \div 10) \o <<Digits[(n % 10) + 1]>>

RECURSIVE ZeroPad(_, _)
ZeroPad(ds, width) == IF Len(ds) >= width THEN ds ELSE ZeroPad(<<"0">> \o ds, width)

Num(neg, hi, lo, frac) ==
    [kind |-> "num", neg |-> neg, hi |-> hi, lo |-> lo, frac |-> frac]

\* a native integer as a Python number
NumOf(n) == IF n < 0 THEN Num(TRUE, 0, 0 - n, FALSE) ELSE Num(FALSE, 0, n, FALSE)

IsZero(x) == x.hi = 0 /\ x.lo = 0

\* magnitude of a string of decimal digits
MagOfDigits(ds) ==
    LET n == Len(ds)
    IN IF n <= 8 THEN [hi |-> 0, lo |-> NatOfDigits(ds)]
       ELSE [hi |-> NatOfDigits(SubSeq(ds, 1, n - 8)),
             lo |-> NatOfDigits(SubSeq(ds, n - 7, n))]

MagLess(a, b) == a.hi < b.hi \/ (a.hi = b.hi /\ a.lo < b.lo)

MagAdd(m, d) ==
    IF m.lo + d >= Limb THEN [hi |-> m.hi + 1, lo |-> m.lo + d - Limb]
    ELSE [hi |-> m.hi, lo |-> m.lo + d]

\* 2^53, 2^54, 2^55, 2^56 in limbs
TwoTo53 == [hi |-> 90071992, lo |-> 54740992]

TwoTo54 == [hi |-> 180143985, lo |-> 9481984]

TwoTo55 == [hi |-> 360287970, lo |-> 18963968]

TwoTo56 == [hi |-> 720575940, lo |-> 37927936]

\* number of low bits an IEEE double (53 bit significand) cannot hold
LostBits(m) ==
    IF MagLess(m, TwoTo53) THEN 0
    ELSE IF MagLess(m, TwoTo54) THEN 1
    ELSE IF MagLess(m, TwoTo55) THEN 2
    ELSE IF MagLess(m, TwoTo56) THEN 3
    ELSE 4

\* the double nearest to an integer magnitude, ties to the even significand
RoundToDouble(m) ==
    LET u == 2 ^ LostBits(m)
        r == m.lo % u
        down == [hi |-> m.hi, lo |-> m.lo - r]
    IN IF r = 0 THEN m
       ELSE IF 2 * r < u THEN down
       ELSE IF 2 * r > u THEN MagAdd(down, u)
       ELSE IF (down.lo \div u) % 2 = 0 THEN down
       ELSE MagAdd(down, u)

\* text.strip() for blanks
RECURSIVE strip(_)
strip(t) ==
    IF t # <<>> /\ t[1] = " " THEN strip(Tail(t))
    ELSE IF t # <<>> /\ t[Len(t)] = " " THEN strip(SubSeq(t, 1, Len(t) - 1))
    ELSE t

HasSign(t) == t # <<>> /\ t[1] \in {"-", "+"}

Unsigned(t) == IF HasSign(t) THEN Tail(t) ELSE t

\* int(text): None stands for ValueError.  Digit strings longer than
\* MaxDigits are not among the generated texts; the limbs cannot hold them.
int(t) ==
    LET body == Unsigned(strip(t))
        m == MagOfDigits(body)
    IN IF body = <<>> \/ ~AllDigits(body) \/ Len(body) > MaxDigits THEN None
       ELSE Some(Num(strip(t)[1] = "-" /\ (m.hi # 0 \/ m.lo # 0), m.hi, m.lo, FALSE))

\* float(text) for plain decimal notation, inf and nan: None stands for
\* ValueError.  The integer part is rounded to a double; a fractional part
\* is kept as a flag (the inputs with a fraction have a short one and a
\* small integer part, where the double still holds the fraction).
float(t) ==
    LET s == strip(t)
        body == Unsigned(s)
        neg == HasSign(s) /\ s[1] = "-"
        dots == {i \in 1..Len(body) : body[i] = "."}
        dot == IF dots = {} THEN Len(body) + 1 ELSE CHOOSE i \in dots : TRUE
        ip == SubSeq(body, 1, dot - 1)
        fp == SubSeq(body, dot + 1, Len(body))
        m == RoundToDouble(MagOfDigits(ip))
    IN IF body \in {<<"i", "n", "f">>, <<"i", "n", "f", "i", "n", "i", "t", "y">>}
       THEN Some([kind |-> "inf", neg |-> neg, hi |-> 0, lo |-> 0, frac |-> FALSE])
       ELSE IF body = <<"n", "a", "n">>
       THEN Some([kind |-> "nan", neg |-> neg, hi |-> 0, lo |-> 0, frac |-> FALSE])
       ELSE IF \/ Cardinality(dots) > 1
               \/ ~AllDigits(ip) \/ ~AllDigits(fp)
               \/ (ip = <<>> /\ fp = <<>>)
               \/ Len(ip) > MaxDigits
       THEN None
       ELSE Some(Num(neg, m.hi, m.lo, \E i \in 1..Len(fp) : fp[i] # "0"))

\* int(x) of a finite number: truncation toward zero
Trunc(x) == Num(x.neg /\ ~IsZero(x), x.hi, x.lo, FALSE)

\* str(n) of an integer
str(n) ==
    (IF n.neg THEN <<"-">> ELSE <<>>)
    \o (IF n.hi = 0 THEN DigitsOfNat(n.lo)
        ELSE DigitsOfNat(n.hi) \o ZeroPad(DigitsOfNat(n.lo), 8))

----------------------------------------------------------------------------
(* Cursor: construction, text form, parsing *)

Raised(e) == [status |-> e, cursor |-> None]

Returned(c) == [status |-> "ok", cursor |-> Some(c)]

\* Cursor.__init__(value, offset, is_prev) on Python numbers: the outcome
\* is the new cursor or the exception int(value) raises
Cursor__init__(value, offset, is_prev) ==
    IF value.kind = "nan" THEN Raised("ValueError")
    ELSE IF value.kind = "inf" THEN Raised("OverflowError")
    ELSE Returned([value |-> Trunc(value), offset |-> Trunc(offset),
                   is_prev |-> ~IsZero(is_prev), has_results |-> None])

\* Cursor.__str__
Cursor__str__(c) ==
    str(c.value) \o <<":">> \o str(c.offset) \o <<":">>
    \o str(NumOf(IF c.is_prev THEN 1 ELSE 0))

RECURSIVE split(_, _)
split(t, sep) ==
    IF \A i \in 1..Len(t) : t[i] # sep THEN <<t>>
    ELSE LET i == CHOOSE i \in 1..Len(t) :
                      t[i] = sep /\ \A j \in 1..(i - 1) : t[j] # sep
         IN <<SubSeq(t, 1, i - 1)>> \o split(SubSeq(t, i + 1, Len(t)), sep)

\* from_string that only rejects too few fields
from_string_AtLeast3(value) ==
    LET bits == split(value, ":")
    IN IF Len(bits) < 3 THEN Raised("ValueError")
       ELSE LET b0 == float(bits[1])
                b1 == int(bits[2])
                b2 == int(bits[3])
            IN IF b0 = None \/ b1 = None \/ b2 = None
               THEN Raised("ValueError")
               ELSE Cursor__init__(Get(b0), Get(b1), Get(b2))

\* Cursor.from_string
from_string(value) ==
    LET bits == split(value, ":")
    IN IF Len(bits) # 3 THEN Raised("ValueError")
       ELSE LET b0 == float(bits[1])
                b1 == int(bits[2])
                b2 == int(bits[3])
            IN IF b0 = None \/ b1 = None \/ b2 = None
               THEN Raised("ValueError")
               ELSE Cursor__init__(Get(b0), Get(b1), Get(b2))

----------------------------------------------------------------------------
(* Parsing cursor tokens *)

MaxFields == 4    \* fields of a generated token

\* 2^53 + 1, the smallest integer a double cannot hold
BigOdd == <<"9", "0", "0", "7", "1", "9", "9", "2", "5", "4", "7", "4",
            "0", "9", "9", "3">>

\* texts in Python's syntax of a floating-point number
NumericFields ==
    {<<"1">>, <<"2">>, <<"-", "1">>, <<" ", "1">>, <<"1", ".", "5">>,
     <<"-", "1", ".", "5">>, BigOdd, <<"i", "n", "f">>, <<"n", "a", "n">>}

\* texts in Python's syntax of an integer
IntegerFields == {<<"1">>, <<"2">>, <<"-", "1">>, <<" ", "1">>, BigOdd}

\* texts that are no number
OtherFields == {<<>>, <<"a">>, <<"b">>, <<".">>, <<"1", "a">>}

FieldSet == NumericFields \cup OtherFields

RECURSIVE join(_, _)
join(fs, sep) ==
    IF Len(fs) = 0 THEN <<>>
    ELSE IF Len(fs) = 1 THEN fs[1]
    ELSE fs[1] \o <<sep>> \o join(Tail(fs), sep)

Unparsed == [status |-> "none", cursor |-> None]

NoPaging ==
    /\ store = <<>>
    /\ is_desc = FALSE
    /\ limit = 1
    /\ cursor = None
    /\ results = <<>>
    /\ rows = <<>>
    /\ next_cursor = NoCursor
    /\ prev_cursor = NoCursor
    /\ seen = <<>>
    /\ session = "left"
    /\ origPage = <<>>
    /\ origNext = NoCursor
    /\ lastOp = "none"
    /\ prevOp = "none"
    /\ steps = 0

InitToken ==
    /\ pc = "token"
    /\ \E n \in 1..MaxFields : \E fs \in [1..n -> FieldSet] :
          text = join(fs, ":")
    /\ cur = None
    /\ parsed = Unparsed
    /\ NoPaging

\* a request arrives with a cursor token: the endpoint parses it
Parse ==
    /\ pc = "token"
    /\ parsed' = from_string(text)
    /\ pc' = "parsed"
    /\ UNCHANGED <<text, cur, pagingVars>>

NextText == Parse

SpecText == InitToken /\ [][NextText]_vars

----------------------------------------------------------------------------
(* Round trip of a cursor through its text form *)

MaxRawOffset == 2

\* values handed to Cursor(...): integers and non-integer numbers
RawValues ==
    {NumOf(v) : v \in (0 - 2)..2}
    \cup {Num(n, 0, 1, TRUE) : n \in BOOLEAN}
    \cup {Num(n, 0, 0, TRUE) : n \in BOOLEAN}
    \cup {Num(n, TwoTo53.hi, TwoTo53.lo + d, FALSE) :
             n \in BOOLEAN, d \in (0 - 1)..3}

InitRound ==
    /\ pc = "made"
    /\ \E v \in RawValues, o \in 0..MaxRawOffset, p \in 0..1 :
          cur = Cursor__init__(v, NumOf(o), NumOf(p)).cursor
    /\ text = <<>>
    /\ parsed = Unparsed
    /\ NoPaging

\* the cursor is written into a response
Serialize ==
    /\ pc = "made"
    /\ text' = Cursor__str__(Get(cur))
    /\ pc' = "token"
    /\ UNCHANGED <<cur, parsed, pagingVars>>

NextRound == Serialize \/ Parse

SpecRound == InitRound /\ [][NextRound]_vars

----------------------------------------------------------------------------
(* Claims *)

RowIds(page) == {page[i].id : i \in 1..Len(page)}

\* C1: in a forward paging session the concatenation of the returned pages
\* is at every moment a prefix of the store's row sequence, and it is the
\* whole row sequence once a page comes back with next.has_more false: no
\* row is returned twice and no row is skipped.
C1_ForwardSessionExact ==
    session \in {"running", "ended"} =>
        /\ Len(seen) <= Len(store)
        /\ seen = SubSeq(store, 1, Len(seen))
        /\ (session = "ended" => seen = store)

C1_Witness ==
    /\ session = "ended"
    /\ steps >= 3
    /\ seen = store
    /\ \E i \in 1..(Len(store) - 1) : store[i].k = store[i + 1].k

\* C2: page P was returned with a next cursor that has more; the following
\* page is fetched with that cursor; its prev cursor is followed by the
\* backward query and build_cursor.  The page that comes back has the row
\* set of P.
C2_Symmetry ==
    (lastOp = "prev" /\ prevOp = "next" /\ steps >= 3
       /\ Get(origNext.has_results)) =>
        RowIds(rows) = RowIds(origPage)

----------------------------------------------------------------------------
(* Claims about one call of build_cursor *)

\* the inbound cursor of the call, with the default of an absent one
Inbound == IF cursor = None THEN NoCursor ELSE Get(cursor)

ForwardOrAbsent == ~Inbound.is_prev

StrictlyAscending(res) ==
    \A i \in 1..(Len(res) - 1) : res[i].k < res[i + 1].k

Lookahead ==
    /\ pc = "built"
    /\ cursor = None
    /\ ~is_desc
    /\ Len(results) = limit + 1
    /\ StrictlyAscending(results)

\* C3 (as stated): with no cursor, ascending order and limit + 1 rows of
\* unique keys, the page is the first limit rows, next.value is the key of
\* the last retained row, next.offset is 0 and next.has_more is true.
C3_LookaheadLastRetained ==
    Lookahead =>
        /\ rows = SubSeq(results, 1, limit)
        /\ next_cursor.value = results[limit].k
        /\ next_cursor.offset = 0
        /\ next_cursor.has_results = Some(TRUE)

\* C3 (amended): with no cursor, ascending order and limit + 1 rows of
\* unique keys, the page is the first limit rows, next.value is the key of
\* the lookahead sentinel (row limit + 1), next.offset is 0 and
\* next.has_more is true.
C3_LookaheadSentinel ==
    Lookahead =>
        /\ rows = SubSeq(results, 1, limit)
        /\ next_cursor.value = results[limit + 1].k
        /\ next_cursor.offset = 0
        /\ next_cursor.has_results = Some(TRUE)

C3_Witness ==
    /\ Lookahead
    /\ limit = 3
    /\ Len(rows) = 3
    /\ next_cursor.value = results[4].k
    /\ next_cursor.value # results[3].k

\* number of rows of a page whose key equals v
CountKey(page, v) == Cardinality({i \in 1..Len(page) : page[i].k = v})

\* the limit cuts inside a run of equal keys at the end of the batch
CutInsideRun ==
    /\ pc = "built"
    /\ ForwardOrAbsent
    /\ Len(results) = limit + 1
    /\ results[limit].k = results[limit + 1].k

\* C4 (as stated): when the limit cuts inside a run of equal keys and the
\* inbound offset is not negative, next.offset is the number of retained rows whose key equals next.value.
C4_OffsetIsRetainedCount ==
    (CutInsideRun /\ Inbound.offset >= 0) => next_cursor.offset = CountKey(rows, next_cursor.value)

\* the value the key of the last row is compared with: the inbound
\* cursor's value, or the first row's key when that value is zero or absent
StartValue == IF Inbound.value # 0 THEN Inbound.value ELSE results[1].k

\* C4 (amended): when the limit cuts inside a run of equal keys, next.offset
\* is the number of retained rows whose key equals next.value if the
\* batch's last key differs from the inbound cursor's value (from the first
\* row's key when the cursor is absent or has value zero); if it is that
\* value, next.offset is the inbound offset plus limit.
C4_TieBreakOffset ==
    CutInsideRun =>
        next_cursor.offset =
            IF results[limit + 1].k = StartValue
            THEN Inbound.offset + limit
            ELSE CountKey(rows, next_cursor.value)

C4_Witness ==
    /\ CutInsideRun
    /\ limit = 3
    /\ results[1].k # results[4].k
    /\ Inbound.value = results[1].k
    /\ Inbound.offset = 1
    /\ next_cursor.offset = 2

EmptyBatch == pc = "built" /\ Len(results) = 0

\* C5 (as stated): on an empty batch, with an inbound cursor whose offset is
\* not negative or with none, the page is empty, next and prev carry
\* the inbound position, next.has_more is false, and prev.has_more is false
\* unless the inbound cursor implied a previous page.
C5_EmptyKeepsPosition ==
    (EmptyBatch /\ Inbound.offset >= 0) =>
        /\ rows = <<>>
        /\ next_cursor.value = Inbound.value
        /\ next_cursor.offset = Inbound.offset
        /\ prev_cursor.value = Inbound.value
        /\ prev_cursor.offset = Inbound.offset
        /\ next_cursor.has_results = Some(FALSE)
        /\ (prev_cursor.has_results = Some(TRUE) =>
                (Inbound.value # 0 \/ Inbound.offset # 0))
        /\ (cursor = None => prev_cursor.has_results = Some(FALSE))

\* C5 (amended): on an empty batch the page is empty.  For an absent or
\* forward inbound cursor, next carries the inbound (value, offset) with
\* has_more false, and prev is (0, 0) with has_more true exactly when the
\* inbound value or offset is non-zero.  For a backward inbound cursor, next
\* is (inbound value, 0) with has_more true and prev is (0, inbound offset)
\* with has_more false.  With no inbound cursor both flags are false.
C5_EmptyBatch ==
    EmptyBatch =>
        /\ rows = <<>>
        /\ next_cursor.value = Inbound.value
        /\ prev_cursor.value = 0
        /\ IF Inbound.is_prev
           THEN /\ next_cursor.offset = 0
                /\ next_cursor.has_results = Some(TRUE)
                /\ prev_cursor.offset = Inbound.offset
                /\ prev_cursor.has_results = Some(FALSE)
           ELSE /\ next_cursor.offset = Inbound.offset
                /\ next_cursor.has_results = Some(FALSE)
                /\ prev_cursor.offset = 0
                /\ prev_cursor.has_results =
                       Some(Inbound.value # 0 \/ Inbound.offset # 0)
        /\ (cursor = None =>
                /\ next_cursor.has_results = Some(FALSE)
                /\ prev_cursor.has_results = Some(FALSE))

C5_Witness ==
    /\ EmptyBatch
    /\ cursor # None
    /\ Inbound.is_prev
    /\ Inbound.value = 2
    /\ Inbound.offset = 1
    /\ next_cursor.has_results = Some(TRUE)
    /\ prev_cursor.value = 0

\* C6: on a non-empty batch next.has_more is true for a backward inbound
\* cursor, and for a forward or absent one it is true exactly when the
\* batch holds more than limit rows.
C6_HasNextRule ==
    (pc = "built" /\ Len(results) > 0) =>
        next_cursor.has_results =
            Some(IF Inbound.is_prev THEN TRUE ELSE Len(results) > limit)

C6_Witness ==
    /\ pc = "built"
    /\ ForwardOrAbsent
    /\ Len(results) = limit
    /\ limit = 3
    /\ rows = results
    /\ next_cursor.has_results = Some(FALSE)

\* C7: for a batch of at most limit + 1 rows the page is the first
\* min(len, limit) rows of the batch for a forward or absent inbound cursor
\* and the last min(len, limit) rows for a backward one; it never holds
\* more than limit rows.
C7_PageTrimming ==
    (pc = "built" /\ Len(results) <= limit + 1) =>
        LET n == Min(Len(results), limit)
        IN /\ Len(rows) = n
           /\ Len(rows) <= limit
           /\ rows = IF Inbound.is_prev
                     THEN SubSeq(results, Len(results) - n + 1, Len(results))
                     ELSE SubSeq(results, 1, n)

C7_Witness ==
    /\ pc = "built"
    /\ Inbound.is_prev
    /\ limit = 2
    /\ Len(results) = 3
    /\ rows = SubSeq(results, 2, 3)

----------------------------------------------------------------------------
(* Claims about the cursor token *)

SameTriple(a, b) ==
    /\ a.value = b.value
    /\ a.offset = b.offset
    /\ a.is_prev = b.is_prev

\* C8: for every cursor c, Cursor.from_string(str(c)) succeeds and yields a
\* cursor with the (value, offset, direction) of c.
C8_RoundTrip ==
    (pc = "parsed" /\ cur # None) =>
        /\ parsed.status = "ok"
        /\ SameTriple(Get(parsed.cursor), Get(cur))

ColonCount(t) == Cardinality({i \in 1..Len(t) : t[i] = ":"})

Malformed(t) ==
    \/ ColonCount(t) # 2
    \/ split(t, ":")[1] \notin NumericFields
    \/ split(t, ":")[2] \notin IntegerFields
    \/ split(t, ":")[3] \notin IntegerFields

\* C9: Cursor.from_string raises ValueError and yields no cursor when the
\* text does not have exactly three colon-separated fields, or the first is
\* not numeric, or the second or third is not an integer.
C9_MalformedRejected ==
    (pc = "parsed" /\ Malformed(text)) =>
        /\ parsed.status = "ValueError"
        /\ parsed.cursor = None

C9_Witness ==
    /\ pc = "parsed"
    /\ text = <<"1", ":", "2", ":", "1", ":", "2">>
    /\ parsed.status = "ValueError"

\* C10: every cursor that Cursor.from_string accepts has offset >= 0.
C10_OffsetNonNegative ==
    (pc = "parsed" /\ parsed.status = "ok") =>
        ~Get(parsed.cursor).offset.neg

----------------------------------------------------------------------------
(* Claim about has_prev *)

\* C11: for every call of build_cursor, prev.has_more is true exactly when
\* the batch holds more than limit rows if the inbound cursor is backward;
\* for a forward inbound cursor it is true exactly when the cursor's value
\* or offset is non-zero, and it is false for an absent cursor, whatever
\* the batch holds.
C11_HasPrevRule ==
    pc = "built" =>
        prev_cursor.has_results =
            Some(IF cursor = None THEN FALSE
                 ELSE IF Get(cursor).is_prev THEN Len(results) > limit
                 ELSE Get(cursor).value # 0 \/ Get(cursor).offset # 0)

C11_Witness ==
    /\ pc = "built"
    /\ cursor # None
    /\ ~Get(cursor).is_prev
    /\ Get(cursor).value = 0
    /\ Get(cursor).offset = 2
    /\ Len(results) = 0
    /\ prev_cursor.has_results = Some(TRUE)

====
